---- MODULE Spec2Model ----
(***************************************************************************)
(* Model of ggpa/mcts_bot.py: the TreeNode search tree (select, expand,     *)
(* rollout, backpropagate, get_best) and the MCTSAgent.choose_card driver.  *)
(*                                                                          *)
(* The tree is an arena: tree[i] is the i-th TreeNode constructed, tree[1]  *)
(* the root.  A node's `children` list is the nodes whose parent it is, in  *)
(* construction order (every TreeNode is appended to its parent's list in   *)
(* the statement after its construction), each paired with its action.      *)
(* The BattleState is an external collaborator: it is modelled by its       *)
(* interface (get_actions, ended, step, score, copy_undeterministic), with  *)
(* step resolving hidden information nondeterministically.                  *)
(***************************************************************************)
EXTENDS Integers, Sequences, FiniteSets, TLC

VARIABLES
    env,         \* which environment the battle state belongs to
    real,        \* battle_state, the authoritative state given to choose_card
    iterations,  \* MCTSAgent.iterations
    pc,          \* position of the single thread of control
    iter,        \* iterations of the loop of choose_card completed
    tree,        \* the TreeNodes constructed so far
    sim,         \* sample_state, the copy the running iteration advances
                 \* (NoState while no iteration runs)
    cur,         \* self of the running select / rollout call (0: none)
    bp,          \* self of the running backpropagate call (0: none)
    reward,      \* the result being backpropagated
    returned,    \* the action choose_card returned ("none": not yet)
    copies,      \* number of copy_undeterministic calls made
    stepped,     \* the state.step call the last action made (NoStep: none)
    via,         \* the branch of select the last action took ("none": none)
    pre,         \* the tree and start node when the running backpropagation began
    grown        \* TreeNodes constructed since the last iteration began

vars == <<env, real, iterations, pc, iter, tree, sim, cur, bp, reward,
          returned, copies, stepped, via, pre, grown>>

\* ---------------------------------------------------------------- bounds
MaxIter == 4          \* largest configured iteration count explored
MaxDepth == 3         \* longest playout of the general environment, in plies
ScenarioIters == 50   \* iteration count of the two-action scenario
MaxResults == 2       \* longest results list of a child given to get_best alone

\* ------------------------------------------------------------- constants
ParamTenths == 5      \* param, in tenths (default of the -p option: 0.5)

Actions == {"A", "B", "C"}
Scores == {0, 1}
NoAction == "none"

NonEmpty(S) == SUBSET S \ {{}}

\* ------------------------------------------------------------ BattleState
\* A battle state as the search sees it: what get_actions(), ended() and
\* score() answer, and how many plies it has been advanced.  obj tells the
\* state objects apart: 0 is the object choose_card was given, n the object
\* the n-th call of copy_undeterministic made.
State(acts, ended, depth, val) ==
    [obj |-> 0, acts |-> acts, ended |-> ended, depth |-> depth, val |-> val]

NoState == [State({}, TRUE, 0, 0) EXCEPT !.obj = -1]

get_actions(s) == s.acts
ended(s) == s.ended
score(s) == s.val

\* state.step(a): the states the call may leave behind.  The general
\* environment resolves its hidden information freely: the battle may end
\* with any score, or go on with any non-empty set of legal actions, and it
\* ends after MaxDepth plies at the latest.  In the scenario environment the
\* battle ends at once, won (1) through "A" and lost (0) otherwise.
StateStep(s, a) ==
    LET after ==
            IF env = "scenario"
            THEN {State({}, TRUE, s.depth + 1, IF a = "A" THEN 1 ELSE 0)}
            ELSE {State({}, TRUE, s.depth + 1, v) : v \in Scores}
                 \cup (IF s.depth + 1 < MaxDepth
                       THEN {State(X, FALSE, s.depth + 1, 0) : X \in NonEmpty(Actions)}
                       ELSE {})
    IN  {[t EXCEPT !.obj = s.obj] : t \in after}

\* battle_state.copy_undeterministic(): a new object, independent of s, that
\* answers as s does until it is advanced.
copy_undeterministic(s) == [s EXCEPT !.obj = copies + 1]

\* --------------------------------------------------------------- TreeNode
\* TreeNode.__init__(param, parent), with the action its parent files it under.
TreeNode(param, parent, action) ==
    [parent |-> parent, action |-> action, results |-> <<>>, visits |-> 0,
     param |-> param]

Nodes == 1..Len(tree)
Root == 1

RECURSIVE SeqSum(_)
SeqSum(s) == IF s = <<>> THEN 0 ELSE Head(s) + SeqSum(Tail(s))

\* self.children of node p in tree t, as the sequence of child nodes in list order.
ChildrenIn(t, p) ==
    SelectSeq([i \in 1..Len(t) |-> i], LAMBDA i : t[i].parent = p)

children(p) == ChildrenIn(tree, p)

Range(s) == {s[i] : i \in 1..Len(s)}

\* [act for act, _ in self.children]
tried(p) == {tree[c].action : c \in Range(children(p))}

\* ------------------------------------------------------------------ UCB-1
\* math.inf, as a score no finite score of the model reaches.
Inf == 1073741824

\* math.log(n) for n = 1..60, in units of 10^-8.
LnTable == <<
    0, 69314718, 109861228, 138629436, 160943791, 179175946, 194591014,
    207944154, 219722457, 230258509, 239789527, 248490664, 256494935,
    263905732, 270805020, 277258872, 283321334, 289037175, 294443897,
    299573227, 304452243, 309104245, 313549421, 317805383, 321887582,
    325809653, 329583686, 333220451, 336729582, 340119738, 343398720,
    346573590, 349650756, 352636052, 355534806, 358351893, 361091791,
    363758615, 366356164, 368887945, 371357206, 373766961, 376120011,
    378418963, 380666248, 382864139, 385014760, 387120101, 389182029,
    391202300, 393182563, 395124371, 397029191, 398898404, 400733318,
    402535169, 404305126, 406044301, 407753744, 409434456 >>

\* log_total = math.log(total_visits) if total_visits > 0 else 0.0
LogTotal(total_visits) ==
    IF total_visits > 0
    THEN LnTable[IF total_visits <= Len(LnTable) THEN total_visits ELSE Len(LnTable)]
    ELSE 0

\* math.sqrt on a value in units of 10^-8, giving units of 10^-4 (rounded down).
RECURSIVE SqrtBetween(_, _, _)
SqrtBetween(x, lo, hi) ==
    IF lo >= hi THEN lo
    ELSE LET mid == (lo + hi + 1) \div 2
         IN  IF mid * mid <= x THEN SqrtBetween(x, mid, hi)
             ELSE SqrtBetween(x, lo, mid - 1)

Sqrt(x) == SqrtBetween(x, 0, 46340)

\* sum(node.visits for (_, node) in self.children)
RECURSIVE VisitSum(_)
VisitSum(kids) ==
    IF kids = <<>> THEN 0 ELSE tree[Head(kids)].visits + VisitSum(Tail(kids))

\* The score with a child without visits scored as average 0.0.
UcbScore_ZeroUnvisited(p, c, log_total) ==
    IF tree[c].visits = 0
    THEN 0
    ELSE (SeqSum(tree[c].results) * 10000) \div tree[c].visits
         + (tree[p].param * Sqrt(log_total \div tree[c].visits)) \div 10

\* The score select gives child c of node p, in units of 10^-4.
UcbScore(p, c, log_total) ==
    IF tree[c].visits = 0
    THEN Inf
    ELSE LET exploit == (SeqSum(tree[c].results) * 10000) \div tree[c].visits
             explore == (tree[p].param * Sqrt(log_total \div tree[c].visits)) \div 10
         IN  exploit + explore

\* Lines 77-78 with the filter left out: every child is a candidate.
Candidate_Unfiltered(c, actions) == TRUE

\* Lines 77-78: a child is scored only if its action is in actions.
Candidate(c, actions) == tree[c].action \in actions

\* The for loop of select over self.children: the node left in best_node
\* (0 stands for None), a later child replacing it only on a strictly
\* greater score, children whose action is not in actions being skipped.
RECURSIVE UcbScan(_, _, _, _, _, _)
UcbScan(p, kids, actions, log_total, best_score, best_node) ==
    IF kids = <<>> THEN best_node
    ELSE LET c == Head(kids)
         IN  IF ~Candidate(c, actions)
             THEN UcbScan(p, Tail(kids), actions, log_total, best_score, best_node)
             ELSE IF UcbScore(p, c, log_total) > best_score
                  THEN UcbScan(p, Tail(kids), actions, log_total,
                               UcbScore(p, c, log_total), c)
                  ELSE UcbScan(p, Tail(kids), actions, log_total, best_score, best_node)

UcbPick(p, actions) ==
    UcbScan(p, children(p), actions, LogTotal(VisitSum(children(p))), -Inf, 0)

\* --------------------------------------------------------------- get_best
\* The key with a child without visits counted as average 0.0, the value
\* print_tree shows for it.
KeyGreater_ZeroForUnvisited(t, a, b) ==
    LET avg_a == IF t[a].visits > 0 THEN SeqSum(t[a].results) ELSE 0
        avg_b == IF t[b].visits > 0 THEN SeqSum(t[b].results) ELSE 0
        v_a == IF t[a].visits > 0 THEN t[a].visits ELSE 1
        v_b == IF t[b].visits > 0 THEN t[b].visits ELSE 1
    IN  avg_a * v_b > avg_b * v_a

\* The key of max() in get_best, compared exactly: key(a) > key(b), where a
\* child without visits has key -inf and any other sum(results) / visits.
KeyGreater(t, a, b) ==
    /\ t[a].visits > 0
    /\ \/ t[b].visits = 0
       \/ SeqSum(t[a].results) * t[b].visits > SeqSum(t[b].results) * t[a].visits

\* max(self.children, key=...): the first child no later child beats.
RECURSIVE MaxScan(_, _, _)
MaxScan(t, kids, best) ==
    IF kids = <<>> THEN best
    ELSE IF KeyGreater(t, Head(kids), best)
         THEN MaxScan(t, Tail(kids), Head(kids))
         ELSE MaxScan(t, Tail(kids), best)

\* The first child taken without comparing any key.
MaxChild_First(t, p) == Head(ChildrenIn(t, p))

MaxChild(t, p) == MaxScan(t, Tail(ChildrenIn(t, p)), Head(ChildrenIn(t, p)))

\* The fallback taking the first legal action instead of a random one.
Fallback_First(state) ==
    IF get_actions(state) = {} THEN {}
    ELSE {CHOOSE a \in get_actions(state) : TRUE}

\* Line 37, random.choice(state.get_actions()): any legal action.
Fallback(state) == get_actions(state)

\* TreeNode.get_best(state) on the root: the actions it may return.
get_best(state) ==
    IF children(Root) = <<>>
    THEN Fallback(state)
    ELSE {tree[MaxChild(tree, Root)].action}

\* ------------------------------------------------------------- state.step
NoStep == [action |-> NoAction, legal |-> {}, by |-> "none", obj |-> -1]
NoPre == [tree |-> <<>>, from |-> 0]

\* The call recorded but the state left as it was (state.step left out).
Step_LeftOut(a, by) ==
    /\ sim' = sim
    /\ real' = real
    /\ stepped' = [action |-> a, legal |-> get_actions(sim), by |-> by,
                   obj |-> sim.obj]

\* state.step(a) made by `by` on the object sample_state names: the object
\* moves to one of its successors (and with it battle_state, were it the
\* same object), and the call is recorded with the legal-action set the
\* state reported then and the object it was made on.
Step(a, by) ==
    /\ \E s2 \in StateStep(sim, a) : sim' = s2
    /\ real' = IF sim.obj = real.obj THEN sim' ELSE real
    /\ stepped' = [action |-> a, legal |-> get_actions(sim), by |-> by,
                   obj |-> sim.obj]

\* A raise that nothing catches (random.choice of an empty sequence).
Raise ==
    /\ pc' = "error"
    /\ stepped' = NoStep
    /\ via' = "none"
    /\ UNCHANGED <<real, iter, tree, sim, cur, bp, reward, returned, pre, grown>>

\* ------------------------------------------------------------ choose_card
\* The shortcut taken only when there is nothing to choose from.
Shortcut_Empty(actions) == Cardinality(actions) = 0

\* Line 157: len(actions) == 1
Shortcut(actions) == Cardinality(actions) = 1

\* Lines 156-160: the single-action shortcut, or the construction of the root.
choose_card_enter ==
    /\ pc = "start"
    /\ IF Shortcut(get_actions(real))
       THEN /\ returned' = CHOOSE a \in get_actions(real) : TRUE
            /\ pc' = "done"
            /\ tree' = tree
       ELSE /\ tree' = <<TreeNode(ParamTenths, 0, NoAction)>>
            /\ pc' = "loop"
            /\ returned' = returned
    /\ stepped' = NoStep
    /\ via' = "none"
    /\ UNCHANGED <<env, real, iterations, iter, sim, cur, bp, reward, copies, pre,
                   grown>>

\* sample_state bound to battle_state itself.
Sample_NoCopy(state) == state

\* Line 164: sample_state = battle_state.copy_undeterministic()
Sample(state) == copy_undeterministic(state)

\* Lines 163-165 and step (29-30): one more iteration starts on a fresh copy.
choose_card_iterate ==
    /\ pc = "loop"
    /\ iter < iterations
    /\ sim' = Sample(real)
    /\ copies' = copies + 1
    /\ grown' = 0
    /\ cur' = Root
    /\ pc' = "select"
    /\ stepped' = NoStep
    /\ via' = "none"
    /\ UNCHANGED <<env, real, iterations, iter, tree, bp, reward, returned, pre>>

\* Lines 167-174: the loop is over, get_best decides.
choose_card_return ==
    /\ pc = "loop"
    /\ iter = iterations
    /\ IF get_best(real) = {}
       THEN Raise
       ELSE /\ \E a \in get_best(real) : returned' = a
            /\ pc' = "done"
            /\ stepped' = NoStep
            /\ via' = "none"
            /\ UNCHANGED <<real, iter, tree, sim, cur, bp, reward, pre, grown>>
    /\ UNCHANGED <<env, iterations, copies>>

\* ----------------------------------------------------------------- select
\* Lines 59-62: the state has ended, its score is backpropagated from self.
select_ended ==
    /\ pc = "select"
    /\ ended(sim)
    /\ reward' = score(sim)
    /\ bp' = cur
    /\ pre' = [tree |-> tree, from |-> cur]
    /\ via' = "ended"
    /\ stepped' = NoStep
    /\ pc' = "backprop"
    /\ UNCHANGED <<env, real, iterations, iter, tree, sim, cur, returned, copies,
                   grown>>

\* The test with <= for <.
NeedsExpand_OrEqual(p, actions) == Len(children(p)) <= Cardinality(actions)

\* Line 66: the test that sends select to expand.
NeedsExpand(p, actions) == Len(children(p)) < Cardinality(actions)

\* expand choosing among all available actions.
Unexplored_All(p, available) == available

\* Lines 110-111: [a for a in available if a not in tried]
Unexplored(p, available) == available \ tried(p)

\* Lines 66-67 and expand (109-117): a child for an action not tried yet.
select_expand ==
    /\ pc = "select"
    /\ ~ended(sim)
    /\ NeedsExpand(cur, get_actions(sim))
    /\ LET unexplored == Unexplored(cur, get_actions(sim))
       IN  IF unexplored = {}
           THEN Raise
           ELSE /\ \E action \in unexplored :
                     /\ tree' = Append(tree, TreeNode(tree[cur].param, cur, action))
                     /\ Step(action, "expand")
                /\ cur' = Len(tree) + 1
                /\ grown' = grown + 1
                /\ via' = "expand"
                /\ pc' = "rollout"
                /\ UNCHANGED <<iter, bp, reward, returned, pre>>
    /\ UNCHANGED <<env, iterations, copies>>

\* Lines 69-89 and 103-104: UCB-1 found a child, select recurses into it.
select_ucb ==
    /\ pc = "select"
    /\ ~ended(sim)
    /\ ~NeedsExpand(cur, get_actions(sim))
    /\ UcbPick(cur, get_actions(sim)) # 0
    /\ LET best_node == UcbPick(cur, get_actions(sim))
       IN  /\ Step(tree[best_node].action, "select")
           /\ cur' = best_node
    /\ via' = "ucb"
    /\ UNCHANGED <<env, iterations, pc, iter, tree, bp, reward, returned, copies,
                   pre, grown>>

\* The for/else of lines 95-101: the first child filed under action a, or 0.
RECURSIVE FirstWith(_, _)
FirstWith(kids, a) ==
    IF kids = <<>> THEN 0
    ELSE IF tree[Head(kids)].action = a THEN Head(kids)
         ELSE FirstWith(Tail(kids), a)

\* The new child constructed without its parent.
FallbackChild_NoParent(p, a) == TreeNode(tree[p].param, 0, a)

\* Line 100: TreeNode(self.param, parent=self), to be filed under best_action.
FallbackChild(p, a) == TreeNode(tree[p].param, p, a)

\* Lines 91-104: no child is legal; a random legal action is taken, through
\* the child that has it or through a new child.
select_fallback ==
    /\ pc = "select"
    /\ ~ended(sim)
    /\ ~NeedsExpand(cur, get_actions(sim))
    /\ UcbPick(cur, get_actions(sim)) = 0
    /\ IF get_actions(sim) = {}
       THEN Raise
       ELSE /\ \E best_action \in get_actions(sim) :
                 /\ IF FirstWith(children(cur), best_action) # 0
                    THEN /\ cur' = FirstWith(children(cur), best_action)
                         /\ tree' = tree
                         /\ grown' = grown
                    ELSE /\ tree' = Append(tree, FallbackChild(cur, best_action))
                         /\ cur' = Len(tree) + 1
                         /\ grown' = grown + 1
                 /\ Step(best_action, "select")
            /\ via' = "fallback"
            /\ UNCHANGED <<pc, iter, bp, reward, returned, pre>>
    /\ UNCHANGED <<env, iterations, copies>>

\* ---------------------------------------------------------------- rollout
\* Lines 125-127: one random ply of the playout.
rollout_step ==
    /\ pc = "rollout"
    /\ ~ended(sim)
    /\ IF get_actions(sim) = {}
       THEN Raise
       ELSE /\ \E action \in get_actions(sim) : Step(action, "rollout")
            /\ via' = "none"
            /\ UNCHANGED <<pc, iter, tree, cur, bp, reward, returned, pre, grown>>
    /\ UNCHANGED <<env, iterations, copies>>

\* expand backpropagating from itself instead of from the new child.
BackpropFrom_Self(child) == tree[child].parent

\* Line 119: child.backpropagate(reward)
BackpropFrom(child) == child

\* Lines 128 and 119: the playout is over, expand backpropagates its score
\* from the new child.
rollout_return ==
    /\ pc = "rollout"
    /\ ended(sim)
    /\ reward' = score(sim)
    /\ bp' = BackpropFrom(cur)
    /\ pre' = [tree |-> tree, from |-> BackpropFrom(cur)]
    /\ pc' = "backprop"
    /\ stepped' = NoStep
    /\ via' = "none"
    /\ UNCHANGED <<env, real, iterations, iter, tree, sim, cur, returned, copies,
                   grown>>

\* ---------------------------------------------------------- backpropagate
\* The result appended without counting the visit.
Record_NoVisit(t, n, result) == [t EXCEPT ![n].results = Append(@, result)]

\* Lines 135-136 on node n of tree t.
Record(t, n, result) ==
    [t EXCEPT ![n].results = Append(@, result), ![n].visits = @ + 1]

\* The result recorded without the call on the parent.
HasParent_Never(n) == FALSE

\* The recursion stopping after the parent of the node it started from.
HasParent_Once(n) == tree[n].parent # 0 /\ n = pre.from

\* Line 137: if self.parent
HasParent(n) == tree[n].parent # 0

\* Lines 135-138: one call of backpropagate; from the root the calls return
\* to the loop of choose_card, which counts the iteration.
backpropagate ==
    /\ pc = "backprop"
    /\ tree' = Record(tree, bp, reward)
    /\ IF HasParent(bp)
       THEN /\ bp' = tree[bp].parent
            /\ UNCHANGED <<pc, iter, sim, cur>>
       ELSE /\ bp' = 0
            /\ pc' = "loop"
            /\ iter' = iter + 1
            /\ sim' = NoState
            /\ cur' = 0
    /\ stepped' = NoStep
    /\ via' = "none"
    /\ UNCHANGED <<env, real, iterations, reward, returned, copies, pre, grown>>

\* ---------------------------------------------------------- specification
\* The states choose_card may be called in: one, two or three legal actions
\* (up to the names of the actions); a state that has ended carries its score.
RealActions == {{"A"}, {"A", "B"}, {"A", "B", "C"}}

RealStates ==
    {State(X, FALSE, 0, 0) : X \in RealActions}
    \cup {State(X, TRUE, 0, v) : X \in RealActions, v \in Scores}

Fresh ==
    /\ pc = "start"
    /\ iter = 0
    /\ tree = <<>>
    /\ sim = NoState
    /\ cur = 0
    /\ bp = 0
    /\ reward = 0
    /\ returned = NoAction
    /\ copies = 0
    /\ stepped = NoStep
    /\ via = "none"
    /\ pre = NoPre
    /\ grown = 0

Init ==
    /\ env = "general"
    /\ real \in RealStates
    /\ iterations \in 0..MaxIter
    /\ Fresh

Next ==
    \/ choose_card_enter
    \/ choose_card_iterate
    \/ choose_card_return
    \/ select_ended
    \/ select_expand
    \/ select_ucb
    \/ select_fallback
    \/ rollout_step
    \/ rollout_return
    \/ backpropagate

Spec == Init /\ [][Next]_vars

\* The single thread of choose_card runs on as long as it has a step to take.
SpecFair == Spec /\ WF_vars(Next)

\* ------------------------------------------------------- get_best alone
\* get_best is a public method of TreeNode: it is also checked on its own,
\* on a root whose children are given any statistics, unvisited children
\* included, in any list order.
ResultLists == UNION {[1..n -> Scores] : n \in 0..MaxResults}

ActionLists ==
    UNION {{s \in [1..k -> Actions] : \A i, j \in 1..k : s[i] = s[j] => i = j} :
           k \in 1..Cardinality(Actions)}

RECURSIVE Concat(_)
Concat(ss) == IF ss = <<>> THEN <<>> ELSE Head(ss) \o Concat(Tail(ss))

\* A root whose i-th child is filed under acts[i] and has the results res[i];
\* the root has seen every result of its children.
RootWith(acts, res) ==
    <<[parent |-> 0, action |-> NoAction, results |-> Concat(res),
       visits |-> Len(Concat(res)), param |-> ParamTenths]>>
    \o [i \in 1..Len(acts) |->
          [parent |-> Root, action |-> acts[i], results |-> res[i],
           visits |-> Len(res[i]), param |-> ParamTenths]]

\* The root of the example: X ("A") with 10 visits of average 0.8 and
\* Y ("B") with 10 visits of average 0.3.
ExampleTree ==
    RootWith(<<"A", "B">>,
             <<[i \in 1..10 |-> IF i <= 8 THEN 1 ELSE 0],
               [i \in 1..10 |-> IF i <= 3 THEN 1 ELSE 0]>>)

InitBest ==
    /\ env = "general"
    /\ real = State(Actions, FALSE, 0, 0)
    /\ \/ \E acts \in ActionLists : \E res \in [1..Len(acts) -> ResultLists] :
              tree = RootWith(acts, res)
       \/ tree = ExampleTree
    /\ iterations = tree[Root].visits
    /\ iter = iterations
    /\ pc = "loop"
    /\ sim = NoState
    /\ cur = 0
    /\ bp = 0
    /\ reward = 0
    /\ returned = NoAction
    /\ copies = iterations
    /\ stepped = NoStep
    /\ via = "none"
    /\ pre = NoPre
    /\ grown = 0

NextBest == choose_card_return

SpecBest == InitBest /\ [][NextBest]_vars

\* ------------------------------------------------- the UCB-1 rule alone
\* select is a public method of TreeNode: its UCB-1 rule is also checked on
\* its own, on a root whose children are given any statistics, unvisited
\* children included, in any list order, with any legal-action set.  What
\* the state becomes once stepped plays no part in the rule: the environment
\* that ends at once is taken.
InitUcb ==
    /\ env = "scenario"
    /\ real = State(Actions, FALSE, 0, 0)
    /\ \E acts \in ActionLists : \E res \in [1..Len(acts) -> ResultLists] :
           tree = RootWith(acts, res)
    /\ iter = tree[Root].visits
    /\ iterations = iter + 1
    /\ copies = iter + 1
    /\ \E legal \in NonEmpty(Actions) :
           sim = [State(legal, FALSE, 0, 0) EXCEPT !.obj = copies]
    /\ pc = "select"
    /\ cur = Root
    /\ bp = 0
    /\ reward = 0
    /\ returned = NoAction
    /\ stepped = NoStep
    /\ via = "none"
    /\ pre = NoPre
    /\ grown = 0

NextUcb == select_ucb

SpecUcb == InitUcb /\ [][NextUcb]_vars

\* ------------------------------------------------- the two-action scenario
\* Two legal actions, "A" and "B"; the battle ends with the first action
\* played, won through "A" and lost through "B"; ScenarioIters iterations
\* with param 0.5.
InitScenario ==
    /\ env = "scenario"
    /\ real = State({"A", "B"}, FALSE, 0, 0)
    /\ iterations = ScenarioIters
    /\ Fresh

\* The steps the scenario can take: its playouts are over after one ply, and
\* every child stays legal.
NextScenario ==
    \/ choose_card_enter
    \/ choose_card_iterate
    \/ choose_card_return
    \/ select_ended
    \/ select_expand
    \/ select_ucb
    \/ rollout_return
    \/ backpropagate

SpecScenario == InitScenario /\ [][NextScenario]_vars

\* ================================================================= claims
\* n and its ancestors up to the root, in tree t (0 has none).
RECURSIVE PathUp(_, _)
PathUp(t, n) == IF n = 0 THEN {} ELSE {n} \cup PathUp(t, t[n].parent)

\* C1. Visit/outcome consistency: every node of the tree, the root included,
\* has visits equal to the length of its results list, in every state during
\* and after any sequence of iterations.
C1_VisitsMatchResults ==
    \A n \in Nodes : tree[n].visits = Len(tree[n].results)

\* A backpropagation is under way in a tree of several nodes, the root and
\* another node having been visited more than once.
C1_Witness ==
    /\ pc = "backprop"
    /\ Len(tree) >= 3
    /\ tree[Root].visits >= 2
    /\ \E n \in Nodes : n # Root /\ tree[n].visits >= 2

\* C2. Ancestor monotonicity: while a backpropagation of result r started at
\* node L runs and once it is over, every node the calls have reached (L and
\* its ancestors, in the end up to the root) has visits one higher and r
\* appended once, and every other node is as it was when it began.
C2_AncestorsOnce ==
    (pc \in {"backprop", "loop"} /\ pre.from # 0) =>
        /\ Len(tree) = Len(pre.tree)
        /\ \A n \in Nodes :
             IF n \in PathUp(pre.tree, pre.from) \ PathUp(pre.tree, bp)
             THEN /\ tree[n].visits = pre.tree[n].visits + 1
                  /\ tree[n].results = Append(pre.tree[n].results, reward)
                  /\ tree[n].parent = pre.tree[n].parent
                  /\ tree[n].action = pre.tree[n].action
             ELSE tree[n] = pre.tree[n]

\* A backpropagation from a node two levels below the root is over, in a
\* tree that has a visited node off its path.
C2_Witness ==
    /\ pc = "loop"
    /\ pre.from # 0
    /\ Cardinality(PathUp(tree, pre.from)) >= 3
    /\ \E n \in Nodes : n \notin PathUp(tree, pre.from) /\ tree[n].visits >= 1

\* C3. Single-expansion guarantee: no node has two children with the same
\* action, whether expand or the fallback of select created them, with the
\* legal-action set at a node differing from one iteration to the next.
C3_NoDuplicateChildren ==
    \A p \in Nodes : \A c, d \in Range(children(p)) :
        tree[c].action = tree[d].action => c = d

\* The fallback of select has just created a child under a node that
\* already had one.
C3_Witness ==
    /\ via = "fallback"
    /\ cur = Len(tree)
    /\ tree[cur].visits = 0
    /\ Len(children(tree[cur].parent)) >= 2

\* C4. The driver returns a legal action: from a state with at least one
\* legal action, whatever the iteration count, choose_card raises no error
\* and what it returns is a legal action of the real state.
C4_ReturnsLegalAction ==
    /\ pc # "error"
    /\ pc = "done" => returned \in get_actions(real)

\* choose_card has returned after at least three iterations that built a
\* tree of at least four nodes.
C4_Witness ==
    /\ pc = "done"
    /\ iter >= 3
    /\ Len(tree) >= 4
    /\ returned \in get_actions(real)

\* C5. Exploitation at decision time: with at least one child at the root,
\* get_best returns the action of a child; when some child has visits > 0
\* the child returned has visits > 0 and an average outcome (sum of results
\* over visits) at least that of every visited child; the example root
\* (X: 10 visits of average 0.8, Y: 10 visits of average 0.3) gives X.
C5_BestIsVisitedMax ==
    (pc = "done" /\ tree # <<>> /\ children(Root) # <<>>) =>
        /\ \E c \in Range(children(Root)) :
             /\ tree[c].action = returned
             /\ (\E d \in Range(children(Root)) : tree[d].visits > 0) =>
                  /\ tree[c].visits > 0
                  /\ \A d \in Range(children(Root)) :
                       tree[d].visits > 0 =>
                           SeqSum(tree[c].results) * tree[d].visits
                               >= SeqSum(tree[d].results) * tree[c].visits
        /\ tree = ExampleTree => returned = "A"

\* get_best has answered for a root whose first child has no visits and
\* whose visited children all have average 0.
C5_Witness ==
    /\ pc = "done"
    /\ Len(children(Root)) >= 2
    /\ tree[Head(children(Root))].visits = 0
    /\ \E d \in Range(children(Root)) : tree[d].visits > 0
    /\ \A d \in Range(children(Root)) : SeqSum(tree[d].results) = 0
    /\ \E d \in Range(children(Root)) :
         tree[d].visits > 0 /\ tree[d].action = returned

\* C6. Scenario: with two legal actions, A always won (1) and B always lost
\* (0), ScenarioIters iterations and param 0.5, choose_card raises nothing
\* and returns A, the root's child for A then having visits > 0 and average
\* outcome 1, however the random choices fall.
C6_ScenarioReturnsA ==
    /\ pc # "error"
    /\ pc = "done" =>
         /\ returned = "A"
         /\ iter = iterations
         /\ \E c \in Range(children(Root)) :
              /\ tree[c].action = "A"
              /\ tree[c].visits > 0
              /\ SeqSum(tree[c].results) = tree[c].visits

\* The scenario has run all its iterations, the child for B having been
\* created before the child for A, and A was returned.
C6_Witness ==
    /\ pc = "done"
    /\ returned = "A"
    /\ tree[Root].visits = iterations
    /\ Len(tree) = 3
    /\ tree[2].action = "B"
    /\ tree[3].action = "A"
    /\ tree[3].visits > tree[2].visits

\* C7. Single-action shortcut: when the state offers exactly one legal
\* action, choose_card returns that action at once: no root is constructed,
\* no copy is sampled and no iteration runs, whatever the iteration count.
C7_ShortcutNoSearch ==
    (Cardinality(get_actions(real)) = 1 /\ pc # "start") =>
        /\ pc = "done"
        /\ returned \in get_actions(real)
        /\ tree = <<>>
        /\ copies = 0
        /\ iter = 0

\* choose_card has returned the only legal action with three or more
\* iterations configured.
C7_Witness ==
    /\ pc = "done"
    /\ get_actions(real) = {"A"}
    /\ iterations >= 3
    /\ returned = "A"

\* C8. Childless-root fallback: when the loop is over and the root has no
\* children (no iteration configured, or the state ended at the root in
\* every iteration), get_best can return each legal action of the state,
\* and what it returns is a legal action of the state.
C8_ChildlessFallback ==
    /\ (pc = "loop" /\ iter = iterations /\ children(Root) = <<>>) =>
         \A a \in get_actions(real) : ENABLED (choose_card_return /\ returned' = a)
    /\ (pc = "done" /\ tree # <<>> /\ children(Root) = <<>>) =>
         returned \in get_actions(real)

\* choose_card has returned from a root left childless by iterations that
\* all found the state ended at the root.
C8_Witness ==
    /\ pc = "done"
    /\ tree # <<>>
    /\ children(Root) = <<>>
    /\ iter >= 2
    /\ Cardinality(get_actions(real)) >= 2
    /\ returned \in get_actions(real)

\* C9. Expansion trigger: whenever select runs on a node with a state that
\* has not ended and some legal action has no child under the node, the call
\* takes the expand branch, also when the node holds children for actions
\* that are not legal now.
C9_ExpandWhenMissing ==
    [][(pc = "select" /\ ~ended(sim) /\ get_actions(sim) \ tried(cur) # {})
           => via' = "expand"]_vars

\* C10. Stale children are never selected: every action select or expand
\* applies to the state is in the legal-action set the state reported at
\* that moment.
C10_StepsAreLegal ==
    stepped.by \in {"select", "expand"} => stepped.action \in stepped.legal

\* select has applied a legal action at a node that holds a child whose
\* action was not legal then.
C10_Witness ==
    /\ via \in {"ucb", "fallback"}
    /\ stepped.by = "select"
    /\ stepped.action \in stepped.legal
    /\ \E c \in Range(children(tree[cur].parent)) :
         tree[c].action \notin stepped.legal

\* C11. One node per iteration: one call of step constructs at most one
\* TreeNode, on every path through select, the fallback included.
C11_OneNodePerIteration ==
    grown <= 1

\* C12. Exploration bias: when select applies the UCB-1 rule, the child it
\* descends into is a legal child; if some legal child has visits = 0 it is
\* the first such child in child order, whatever the scores of the visited
\* ones; and no legal child has a greater score, nor an equal score and an
\* earlier place in child order.
C12_UnvisitedFirst ==
    via = "ucb" =>
        LET p == tree[cur].parent
            log_total == LogTotal(VisitSum(children(p)))
            legal == {c \in Range(children(p)) : tree[c].action \in stepped.legal}
        IN  /\ cur \in legal
            /\ stepped.action = tree[cur].action
            /\ (\E c \in legal : tree[c].visits = 0) =>
                 /\ tree[cur].visits = 0
                 /\ \A c \in legal : tree[c].visits = 0 => cur <= c
            /\ \A c \in legal :
                 \/ UcbScore(p, c, log_total) < UcbScore(p, cur, log_total)
                 \/ UcbScore(p, c, log_total) = UcbScore(p, cur, log_total) /\ cur <= c

\* The rule has passed over an earlier legal child, visited and always won,
\* for a legal child without visits.
C12_Witness ==
    /\ via = "ucb"
    /\ tree[cur].visits = 0
    /\ \E c \in Range(children(tree[cur].parent)) :
         /\ c < cur
         /\ tree[c].action \in stepped.legal
         /\ tree[c].visits > 0
         /\ SeqSum(tree[c].results) = tree[c].visits

\* C13. Exactly one outcome per iteration: each call of step ends with one
\* backpropagation that reaches the root, so the root has as many visits as
\* step has been called once the call is over (k after k iterations), and
\* one fewer while a call runs, on every path through select.
C13_OneOutcomePerIteration ==
    tree # <<>> =>
        /\ pc \in {"loop", "done"} =>
             tree[Root].visits = copies /\ iter = copies
        /\ pc \in {"select", "rollout", "backprop"} =>
             tree[Root].visits = copies - 1 /\ iter = copies - 1

\* An iteration that went through the fallback and then an expansion is
\* over, after two earlier iterations or more.
C13_Witness ==
    /\ pc = "loop"
    /\ iter >= 3
    /\ grown = 2
    /\ tree[Root].visits = iter

\* C14. The authoritative state is never advanced by the search: every
\* state.step made by select, expand and rollout is made on the object
\* copy_undeterministic returned for the running iteration, a different
\* object in each iteration, and battle_state is the object and the state
\* choose_card was given, never advanced, up to the call of get_best.
C14_OnlyCopiesAdvance ==
    /\ real \in RealStates
    /\ pc \in {"select", "rollout", "backprop"} =>
         /\ copies = iter + 1
         /\ sim.obj = copies
    /\ stepped.by # "none" =>
         /\ stepped.obj = copies
         /\ stepped.obj # real.obj

\* The playout of the third iteration or a later one has advanced its copy
\* by two plies or more.
C14_Witness ==
    /\ stepped.by = "rollout"
    /\ copies >= 3
    /\ sim.depth >= 2
    /\ real.depth = 0

\* A bound on the steps choose_card still has to take: IterationSteps for
\* each iteration not begun, and within an iteration the plies the copy can
\* still be advanced by plus the nodes backpropagate still has to record.
IterationSteps == 2 * MaxDepth + 5

StepsLeft ==
    CASE pc = "start" -> (iterations + 1) * IterationSteps + 2
      [] pc = "loop" -> (iterations - iter) * IterationSteps + 1
      [] pc \in {"select", "rollout"} ->
             (iterations - iter - 1) * IterationSteps + 1
             + (MaxDepth - sim.depth) + MaxDepth + 3
      [] pc = "backprop" ->
             (iterations - iter - 1) * IterationSteps + 1
             + Cardinality(PathUp(tree, bp))
      [] OTHER -> 0

\* C15. Every iteration terminates: in an environment where every sequence
\* of legal actions ends the battle within a bounded number of plies,
\* choose_card always has a step to take until it has returned, every step
\* it can take (of the recursion of select, of the loop of rollout, of
\* backpropagate, of its own loop) lowers the bound StepsLeft, which never
\* falls below 0, so each call of step reaches the end of its
\* backpropagation and choose_card returns; when it has searched, it
\* returns after exactly the configured number of iterations.
C15_EveryIterationTerminates ==
    /\ [](pc = "done" \/ ENABLED Next)
    /\ [][StepsLeft' < StepsLeft]_vars
    /\ [](StepsLeft >= 0)
    /\ []((pc = "done" /\ tree # <<>>) =>
            /\ iter = iterations
            /\ copies = iterations
            /\ tree[Root].visits = iterations)

\* choose_card has returned after all of three or more configured
\* iterations, which built a tree of four nodes or more.
C15_Witness ==
    /\ pc = "done"
    /\ iterations >= 3
    /\ iter = iterations
    /\ copies = iterations
    /\ Len(tree) >= 4

\* choose_card stands between two calls of step: before the first one, after
\* a completed one, or after the last one.
IterationBoundary == pc \in {"loop", "done"} /\ tree # <<>>

\* C16. No unvisited node survives an iteration: at every iteration boundary
\* every node of the tree other than the root has been visited at least
\* once, whether expand or the fallback of select created it.
C16_NoUnvisitedNode ==
    IterationBoundary => \A n \in Nodes \ {Root} : tree[n].visits >= 1

\* An iteration has just been completed in which the fallback of select and
\* then expand each created a node, and both have been visited.
C16_Witness ==
    /\ pc = "loop"
    /\ iter >= 1
    /\ grown = 2
    /\ \A n \in Nodes \ {Root} : tree[n].visits >= 1

\* C17. Visit counts are consistent along the tree: at every iteration
\* boundary the visits of every node are at least the sum of the visits of
\* its children.
C17_VisitsCoverChildren ==
    IterationBoundary =>
        \A n \in Nodes : tree[n].visits >= VisitSum(children(n))

\* After a completed iteration a node below the root has a visited child of
\* its own, and some node with children has more visits than they have
\* together.
C17_Witness ==
    /\ pc = "loop"
    /\ \E n \in Nodes \ {Root} :
         /\ children(n) # <<>>
         /\ VisitSum(children(n)) >= 1
    /\ \E n \in Nodes :
         /\ children(n) # <<>>
         /\ tree[n].visits > VisitSum(children(n))

\* select is at a node of a running state, does not expand, and no child of
\* the node has an action that is legal in the state.
NoChildLegal ==
    /\ pc = "select"
    /\ ~ended(sim)
    /\ get_actions(sim) # {}
    /\ Len(children(cur)) >= Cardinality(get_actions(sim))
    /\ \A c \in Range(children(cur)) : tree[c].action \notin get_actions(sim)

\* C18. Fallback repair of select: when no child's action is legal in the
\* current state, select picks a legal action and steps the state by it; it
\* descends into the existing child with that action if there is one and
\* leaves the tree as it is, and otherwise appends exactly one new child to
\* the node's children, with the node as parent and the node's param, no
\* visits and no results, and descends into that.
C18_FallbackRepair ==
    [][NoChildLegal =>
         LET picked == stepped'.action
             old == FirstWith(children(cur), picked)
         IN  /\ via' = "fallback"
             /\ picked \in get_actions(sim)
             /\ sim' \in StateStep(sim, picked)
             /\ IF old # 0
                THEN /\ tree' = tree
                     /\ cur' = old
                ELSE /\ tree' = Append(tree, [parent |-> cur,
                                              action |-> picked,
                                              param |-> tree[cur].param,
                                              visits |-> 0,
                                              results |-> <<>>])
                     /\ cur' = Len(tree')
                     /\ ChildrenIn(tree', cur) = Append(children(cur), cur')]_vars

\* The fallback has just run at a node none of whose children was legal: the
\* node has a new last child, without visits, filed under the legal action
\* the state was stepped by, next to the children it had.
C18_Witness ==
    /\ via = "fallback"
    /\ cur = Len(tree)
    /\ tree[cur].visits = 0
    /\ tree[cur].action = stepped.action
    /\ stepped.action \in stepped.legal
    /\ Len(children(tree[cur].parent)) >= 2

====
